---- MODULE Spec2Model ----
(***************************************************************************)
(* BIRB (src/birb.py): the `create` and `build` subcommands.               *)
(*                                                                         *)
(* State: the project manifest .birb/birb.json, the process working        *)
(* directory, the locals of build_project / git_commit /                   *)
(* execute_vcs_push_commands, and the sequence of child processes the run  *)
(* has spawned (trace).  Child processes, the file system and the VCS      *)
(* binary are the environment: every exit status and every file-system     *)
(* answer is a nondeterministic choice.                                    *)
(***************************************************************************)
EXTENDS Integers, Sequences, FiniteSets, TLC

VARIABLES
    manifest,   \* Option: <<>> when .birb/birb.json is absent, else <<config>>
    origin,     \* who wrote the manifest: "authored" | "flags" | "interactive"
    pc,         \* position of the process
    config,     \* build_project's `config` (Option)
    cleaned,    \* the cleanup block (lines 157-169) has been passed with clean_before_build true
    listing,    \* os.listdir(output_dir): the kinds of the direct children (until line 171)
    fate,       \* per child of listing: "pending" | "removed" | "kept" | "failed"
    said,       \* per child of listing: the message printed, "" | "Deleted" | "Failed"
    ci,         \* index of the cleanup loop
    mode,       \* "none" | "multi" | "custom": branch taken at line 172
    ti,         \* index into platform_commands.items()
    label,      \* platform label of the current target
    result,     \* execute_build_command's return value: "unset" | "ok" | "None"
    hconfig,    \* git_commit's `config` (Option)
    vcs,        \* git_commit for this target: "none" | "skipped" | "ok" | "failed" | "unavailable"
    cmds,       \* child processes spawned for this target after its build command
    cwd,        \* process working directory, a path
    cwd0,       \* working directory when git_commit was entered
    pi,         \* index of the push loop
    pushOk,     \* exit status (zero or not) of each push command run for this target
    raised,     \* exception that left build_project: "none" or its origin
    trace       \* every child process spawned and every git_commit call, in order

vars == <<manifest, origin, pc, config, cleaned, listing, fate, said, ci, mode, ti,
          label, result, hconfig, vcs, cmds, cwd, cwd0, pi, pushOk, raised, trace>>

----------------------------------------------------------------------------
(* Bounds of the model *)

MaxPush == 2      \* longest vcs_push_command list of an authored manifest
MaxEntries == 2   \* most direct children of the output directory

----------------------------------------------------------------------------
(* Values *)

None == <<>>
Some(x) == <<x>>
IsNone(o) == o = <<>>
Val(o) == o[1]

BIRB_DIR == ".birb"
ProjectDir == <<"home", "proj">>
Platforms == <<"windows", "linux", "macos">>
Version == "1.2.3"

\* str.lower() on the answers the prompts are given
Lower(s) ==
    CASE s = "NULL" -> "null"
      [] s = "Null" -> "null"
      [] s = "Y" -> "y"
      [] OTHER -> s

\* f"build_script.{platform}.sh"
DefaultScript(platform) == "build_script." \o platform \o ".sh"

\* commit_message_template.format(version=version, platform=platform) for the
\* template "Release {version} for {platform}" that create_birb_json writes
FormatMessage(version, platform) == "Release " \o version \o " for " \o platform

RECURSIVE Join(_)
Join(chars) == IF chars = <<>> THEN "" ELSE Head(chars) \o Join(Tail(chars))

RECURSIVE LStrip(_)
LStrip(chars) ==
    IF chars # <<>> /\ Head(chars) = " " THEN LStrip(Tail(chars)) ELSE chars

RECURSIVE RStrip(_)
RStrip(chars) ==
    IF chars # <<>> /\ chars[Len(chars)] = " "
    THEN RStrip(SubSeq(chars, 1, Len(chars) - 1))
    ELSE chars

\* str.strip()
Strip(chars) == RStrip(LStrip(chars))

\* str.split(','): the pieces between the commas, empty pieces kept
RECURSIVE SplitFrom(_, _)
SplitFrom(chars, piece) ==
    IF chars = <<>> THEN <<piece>>
    ELSE IF Head(chars) = "," THEN <<piece>> \o SplitFrom(Tail(chars), <<>>)
    ELSE SplitFrom(Tail(chars), Append(piece, Head(chars)))

Split(chars) == SplitFrom(chars, <<>>)

\* [cmd.strip() for cmd in input.split(',')] if input else []
ParsePushCommands(chars) ==
    IF chars = <<>> THEN <<>>
    ELSE [k \in 1..Len(Split(chars)) |-> Join(Strip(Split(chars)[k]))]

----------------------------------------------------------------------------
(* Manifests *)

Config(pbc, custom, clean, auto, push) ==
    [ current_version |-> Version,
      custom_build_command |-> custom,
      platform_build_commands |-> pbc,
      clean_before_build |-> clean,
      auto_commit |-> auto,
      vcs_push_command |-> push ]

\* a slip: any(platform_commands) -- true of every non-empty mapping
AnyCommand_Truthy(pbc) == pbc # <<>>

\* any(command is not None for command in platform_commands.values())
AnyCommand(pbc) == \E k \in 1..Len(pbc) : ~IsNone(pbc[k][2])

PushLists ==
    { SubSeq(<<"push1", "push2", "push3", "push4">>, 1, n) : n \in 0..MaxPush }

\* hand-written manifests: the three platforms, each with a command or null
AuthoredCommand(p) == "echo " \o p

AuthoredMappings ==
    { [k \in 1..3 |-> <<Platforms[k], IF k \in on THEN Some(AuthoredCommand(Platforms[k])) ELSE None>>]
        : on \in SUBSET (1..3) }

AuthoredManifests ==
    { Config(pbc, custom, clean, auto, push) :
        pbc \in AuthoredMappings, custom \in {"", "echo build"},
        clean \in BOOLEAN, auto \in BOOLEAN, push \in PushLists }

----------------------------------------------------------------------------
Init ==
    /\ manifest \in {None} \cup { Some(m) : m \in AuthoredManifests }
    /\ origin = "authored"
    /\ pc = "cli"
    /\ config = None
    /\ cleaned = FALSE
    /\ listing = <<>>
    /\ fate = <<>>
    /\ said = <<>>
    /\ ci = 0
    /\ mode = "none"
    /\ ti = 0
    /\ label = ""
    /\ result = "unset"
    /\ hconfig = None
    /\ vcs = "none"
    /\ cmds = <<>>
    /\ cwd = ProjectDir
    /\ cwd0 = ProjectDir
    /\ pi = 0
    /\ pushOk = <<>>
    /\ raised = "none"
    /\ trace = <<>>

----------------------------------------------------------------------------
(* create: main (lines 249-260), interactive_create, create_birb_json *)

\* create_birb_json: custom_build_command is platform_commands.get("custom", "make build")
GetCustom(pbc) ==
    IF \E k \in 1..Len(pbc) : pbc[k][1] = "custom"
    THEN Val(pbc[CHOOSE k \in 1..Len(pbc) : pbc[k][1] = "custom"][2])
    ELSE "make build"

create_birb_json(pbc, clean, push) ==
    Config(pbc, GetCustom(pbc), clean, TRUE, push)

\* main, `create --name N --version V`
CreateFlags ==
    /\ pc = "cli"
    /\ manifest' = Some(create_birb_json(
                        [k \in 1..3 |-> <<Platforms[k], Some(DefaultScript(Platforms[k]))>>],
                        FALSE, <<>>))
    /\ origin' = "flags"
    /\ UNCHANGED <<pc, config, cleaned, listing, fate, said, ci, mode, ti, label, result,
                   hconfig, vcs, cmds, cwd, cwd0, pi, pushOk, raised, trace>>

PlatformAnswers == {"null", "NULL", "", "make all"}
CustomAnswers == {"", "null", "make custom"}
CleanAnswers == {"y", "Y", "n"}
PushAnswers ==
    { <<>>,
      <<"p", "u", "s", "h", "1">>,
      <<"p", "u", "s", "h", "1", ",", " ", "p", "u", "s", "h", "2">> }

\* interactive_create, lines 203-208: the mapping entry of one platform
PlatformEntry(platform, command) ==
    IF Lower(command) = "null" THEN None
    ELSE Some(IF command # "" THEN command ELSE DefaultScript(platform))

\* interactive_create, lines 211-212: the "custom" entry of the mapping
CustomEntry(custom_command) ==
    Some(IF custom_command # "" THEN custom_command ELSE "make build")

\* a variant: the custom command is kept out of the platform mapping
WithCustom_Separate(named, custom_command) == named

\* line 212: platform_commands["custom"] = ...
WithCustom(named, custom_command) ==
    Append(named, <<"custom", CustomEntry(custom_command)>>)

InteractiveCreate ==
    /\ pc = "cli"
    /\ \E answers \in [1..3 -> PlatformAnswers], custom_command \in CustomAnswers,
          clean_input \in CleanAnswers, push_input \in PushAnswers :
          LET named == [k \in 1..3 |-> <<Platforms[k], PlatformEntry(Platforms[k], answers[k])>>]
              pbc == WithCustom(named, custom_command)
          IN manifest' = Some(create_birb_json(pbc, Lower(clean_input) = "y",
                                               ParsePushCommands(push_input)))
    /\ origin' = "interactive"
    /\ UNCHANGED <<pc, config, cleaned, listing, fate, said, ci, mode, ti, label, result,
                   hconfig, vcs, cmds, cwd, cwd0, pi, pushOk, raised, trace>>

----------------------------------------------------------------------------
(* build_project, lines 146-169: load and clean *)

\* main `build`, build_project lines 148-157
BuildStart ==
    /\ pc = "cli"
    /\ config' = manifest
    /\ pc' = IF IsNone(manifest) THEN "done"
             ELSE IF Val(manifest).clean_before_build THEN "clean_exists"
             ELSE "select"
    /\ UNCHANGED <<manifest, origin, cleaned, listing, fate, said, ci, mode, ti, label,
                   result, hconfig, vcs, cmds, cwd, cwd0, pi, pushOk, raised, trace>>

\* line 159: os.path.exists(output_dir)
CleanExists ==
    /\ pc = "clean_exists"
    /\ \E exists \in BOOLEAN :
          IF exists THEN pc' = "clean_listdir" /\ cleaned' = cleaned
          ELSE pc' = "select" /\ cleaned' = TRUE
    /\ UNCHANGED <<manifest, origin, config, listing, fate, said, ci, mode, ti, label,
                   result, hconfig, vcs, cmds, cwd, cwd0, pi, pushOk, raised, trace>>

\* what a direct child of the output directory can be
Kinds == {"file", "link", "emptydir", "fulldir", "special"}

RECURSIVE SeqsUpTo(_, _)
SeqsUpTo(S, n) ==
    IF n = 0 THEN {<<>>}
    ELSE SeqsUpTo(S, n - 1) \cup { Append(q, x) : q \in { r \in SeqsUpTo(S, n - 1) : Len(r) = n - 1 }, x \in S }

Listings == SeqsUpTo(Kinds, MaxEntries)

\* line 160: os.listdir(output_dir) raises when the path is not a directory
\* or cannot be read; the call is outside the try of line 162
CleanListdir ==
    /\ pc = "clean_listdir"
    /\ \/ /\ raised' = "listdir"
          /\ pc' = "aborted"
          /\ UNCHANGED <<listing, fate, said, ci>>
       \/ /\ \E l \in Listings :
                /\ listing' = l
                /\ fate' = [k \in 1..Len(l) |-> "pending"]
                /\ said' = [k \in 1..Len(l) |-> ""]
          /\ ci' = 1
          /\ pc' = "clean_loop"
          /\ UNCHANGED raised
    /\ UNCHANGED <<manifest, origin, config, cleaned, mode, ti, label, result, hconfig,
                   vcs, cmds, cwd, cwd0, pi, pushOk, trace>>

\* lines 163-166: what the body of the try does to a child of this kind;
\* oserror: the removal call raises (e.g. permission denied)
Removal(kind, oserror) ==
    CASE kind \in {"file", "link"} -> IF oserror THEN "failed" ELSE "removed"   \* os.unlink
      [] kind = "emptydir" -> IF oserror THEN "failed" ELSE "removed"             \* os.rmdir
      [] kind = "fulldir" -> "failed"                                             \* os.rmdir: not empty
      [] OTHER -> "kept"                                                           \* neither branch

\* lines 167-169: the message printed for the child
Report(outcome) == IF outcome = "failed" THEN "Failed" ELSE "Deleted"

\* lines 160-169: one iteration of the cleanup loop
CleanEntry ==
    /\ pc = "clean_loop"
    /\ ci <= Len(listing)
    /\ \E oserror \in BOOLEAN :
          /\ fate' = [fate EXCEPT ![ci] = Removal(listing[ci], oserror)]
          /\ said' = [said EXCEPT ![ci] = Report(Removal(listing[ci], oserror))]
    /\ ci' = ci + 1
    /\ UNCHANGED <<manifest, origin, pc, config, cleaned, listing, mode, ti, label, result,
                   hconfig, vcs, cmds, cwd, cwd0, pi, pushOk, raised, trace>>

\* line 160: the listing is exhausted
CleanDone ==
    /\ pc = "clean_loop"
    /\ ci > Len(listing)
    /\ cleaned' = TRUE
    /\ pc' = "select"
    /\ UNCHANGED <<manifest, origin, config, listing, fate, said, ci, mode, ti, label,
                   result, hconfig, vcs, cmds, cwd, cwd0, pi, pushOk, raised, trace>>

----------------------------------------------------------------------------
(* build_project, lines 171-191: the targets *)

Pbc == Val(config).platform_build_commands

BuildEvent(branch, platform, command, ok) ==
    [op |-> "build", branch |-> branch, label |-> platform, arg |-> command, ok |-> ok]

HookEvent(version, platform) ==
    [op |-> "git_commit", branch |-> mode, label |-> platform, arg |-> version, ok |-> TRUE]

\* lines 172, 183: the branch taken; the cleanup loop's frame is dead from here on
SelectMode ==
    /\ pc = "select"
    /\ IF AnyCommand(Pbc)
       THEN mode' = "multi" /\ ti' = 1 /\ pc' = "loop" /\ label' = label
       ELSE mode' = "custom" /\ ti' = ti /\ pc' = "exec" /\ label' = "custom"
    /\ listing' = <<>>
    /\ fate' = <<>>
    /\ said' = <<>>
    /\ ci' = 0
    /\ UNCHANGED <<manifest, origin, config, cleaned, result, hconfig, vcs, cmds, cwd, cwd0,
                   pi, pushOk, raised, trace>>

\* lines 174-175: a pair whose command is None is passed over
SkipNull ==
    /\ pc = "loop"
    /\ ti <= Len(Pbc)
    /\ IsNone(Pbc[ti][2])
    /\ ti' = ti + 1
    /\ UNCHANGED <<manifest, origin, pc, config, cleaned, listing, fate, said, ci, mode,
                   label, result, hconfig, vcs, cmds, cwd, cwd0, pi, pushOk, raised, trace>>

\* lines 174-176: the next pair has a command
PickTarget ==
    /\ pc = "loop"
    /\ ti <= Len(Pbc)
    /\ ~IsNone(Pbc[ti][2])
    /\ label' = Pbc[ti][1]
    /\ pc' = "exec"
    /\ result' = "unset"
    /\ hconfig' = None
    /\ vcs' = "none"
    /\ cmds' = <<>>
    /\ pi' = 0
    /\ pushOk' = <<>>
    /\ UNCHANGED <<manifest, origin, config, cleaned, listing, fate, said, ci, mode, ti,
                   cwd, cwd0, raised, trace>>

\* line 174: the mapping is exhausted, build_project returns
LoopEnd ==
    /\ pc = "loop"
    /\ ti > Len(Pbc)
    /\ pc' = "done"
    /\ UNCHANGED <<manifest, origin, config, cleaned, listing, fate, said, ci, mode, ti,
                   label, result, hconfig, vcs, cmds, cwd, cwd0, pi, pushOk, raised, trace>>

\* the command line 177 or line 186 hands to execute_build_command
TargetCommand ==
    IF mode = "multi" THEN Val(Pbc[ti][2]) ELSE Val(config).custom_build_command

\* execute_build_command, lines 101-110: the CompletedProcess, or None when
\* the shell exits non-zero
execute_build_command(exit_zero) == IF exit_zero THEN "ok" ELSE "None"

\* lines 177, 186
ExecuteBuild ==
    /\ pc = "exec"
    /\ \E exit_zero \in BOOLEAN :
          /\ result' = execute_build_command(exit_zero)
          /\ trace' = Append(trace, BuildEvent(mode, label, TargetCommand, exit_zero))
    /\ pc' = "built"
    /\ UNCHANGED <<manifest, origin, config, cleaned, listing, fate, said, ci, mode, ti,
                   label, hconfig, vcs, cmds, cwd, cwd0, pi, pushOk, raised>>

\* a slip: `if result is not False:` -- None passes too
Truthy_NotFalse(r) == r \in {"ok", "None"}

\* lines 178, 187: `if result:`
Truthy(r) == r = "ok"

\* where control goes when the current target is finished
AfterTarget == IF mode = "multi" THEN "loop" ELSE "done"
AfterTargetIndex == IF mode = "multi" THEN ti + 1 ELSE ti

\* lines 178-180, 187-189: git_commit is called on a truthy result
AfterBuild ==
    /\ pc = "built"
    /\ IF Truthy(result)
       THEN /\ trace' = Append(trace, HookEvent(Val(config).current_version, label))
            /\ cwd0' = cwd
            /\ pc' = "gc_load"
            /\ ti' = ti
       ELSE /\ pc' = AfterTarget
            /\ ti' = AfterTargetIndex
            /\ UNCHANGED <<trace, cwd0>>
    /\ UNCHANGED <<manifest, origin, config, cleaned, listing, fate, said, ci, mode,
                   label, result, hconfig, vcs, cmds, cwd, pi, pushOk, raised>>

----------------------------------------------------------------------------
(* git_commit, lines 112-134 *)

\* os.chdir("..")
Parent(path) == IF path = <<>> THEN path ELSE SubSeq(path, 1, Len(path) - 1)

\* line 134, the finally clause
Finally(path) == Parent(path)

\* line 115: the guard
Guard(c) == IsNone(c) \/ ~Val(c).auto_commit

\* lines 114-116: load_birb_json again; the file may be gone by now
GitCommitLoad ==
    /\ pc = "gc_load"
    /\ \E present \in BOOLEAN :
          LET c == IF present THEN manifest ELSE None
          IN /\ hconfig' = c
             /\ IF Guard(c)
                THEN vcs' = "skipped" /\ pc' = "push" /\ pi' = 1
                ELSE vcs' = vcs /\ pc' = "gc_chdir" /\ pi' = pi
    /\ UNCHANGED <<manifest, origin, config, cleaned, listing, fate, said, ci, mode, ti,
                   label, result, cmds, cwd, cwd0, pushOk, raised, trace>>

\* line 126: os.chdir(BIRB_DIR); an OSError is not a CalledProcessError, so
\* only the finally clause runs before it leaves git_commit and build_project
GitCommitChdir ==
    /\ pc = "gc_chdir"
    /\ \/ /\ cwd' = Append(cwd, BIRB_DIR)
          /\ pc' = "gc_add"
          /\ UNCHANGED raised
       \/ /\ cwd' = Finally(cwd)
          /\ raised' = "chdir"
          /\ pc' = "aborted"
    /\ UNCHANGED <<manifest, origin, config, cleaned, listing, fate, said, ci, mode, ti,
                   label, result, hconfig, vcs, cmds, cwd0, pi, pushOk, trace>>

GitOutcomes == {"zero", "nonzero", "missing"}

Spawn(command) == [op |-> "git", arg |-> command]

\* lines 127, 130-134: git add .
GitAdd ==
    /\ pc = "gc_add"
    /\ \E out \in GitOutcomes :
          CASE out = "zero" ->
                 /\ cmds' = Append(cmds, Spawn("git add ."))
                 /\ pc' = "gc_commit"
                 /\ UNCHANGED <<vcs, cwd, raised, pi>>
            [] out = "nonzero" ->      \* CalledProcessError: except, finally, return
                 /\ cmds' = Append(cmds, Spawn("git add ."))
                 /\ vcs' = "failed"
                 /\ cwd' = Finally(cwd)
                 /\ pc' = "push"
                 /\ pi' = 1
                 /\ UNCHANGED raised
            [] OTHER ->                \* FileNotFoundError: finally, then it propagates
                 /\ vcs' = "unavailable"
                 /\ cwd' = Finally(cwd)
                 /\ raised' = "git"
                 /\ pc' = "aborted"
                 /\ UNCHANGED <<cmds, pi>>
    /\ UNCHANGED <<manifest, origin, config, cleaned, listing, fate, said, ci, mode, ti,
                   label, result, hconfig, cwd0, pushOk, trace>>

\* lines 128-134: git commit -m <message>
GitCommitRun ==
    /\ pc = "gc_commit"
    /\ LET message == FormatMessage(trace[Len(trace)].arg, trace[Len(trace)].label)
           command == "git commit -m " \o message
       IN \E out \in GitOutcomes :
          CASE out = "zero" ->
                 /\ cmds' = Append(cmds, Spawn(command))
                 /\ vcs' = "ok"
                 /\ cwd' = Finally(cwd)
                 /\ pc' = "push"
                 /\ pi' = 1
                 /\ UNCHANGED raised
            [] out = "nonzero" ->
                 /\ cmds' = Append(cmds, Spawn(command))
                 /\ vcs' = "failed"
                 /\ cwd' = Finally(cwd)
                 /\ pc' = "push"
                 /\ pi' = 1
                 /\ UNCHANGED raised
            [] OTHER ->
                 /\ vcs' = "unavailable"
                 /\ cwd' = Finally(cwd)
                 /\ raised' = "git"
                 /\ pc' = "aborted"
                 /\ UNCHANGED <<cmds, pi>>
    /\ UNCHANGED <<manifest, origin, config, cleaned, listing, fate, said, ci, mode, ti,
                   label, result, hconfig, cwd0, pushOk, trace>>

----------------------------------------------------------------------------
(* execute_vcs_push_commands, lines 136-144, called at lines 182 and 191 *)

PushList == Val(config).vcs_push_command

\* a slip: the except clause leaves the loop (break, or no try at all)
AfterPush_StopOnFailure(i, exit_zero) == IF exit_zero THEN i + 1 ELSE Len(PushList) + 1

\* lines 138-144: the index of the command the loop runs after this one;
\* the except clause of line 143 swallows a non-zero exit
AfterPush(i, exit_zero) == i + 1

Push ==
    /\ pc = "push"
    /\ pi <= Len(PushList)
    /\ \E exit_zero \in BOOLEAN :
          /\ cmds' = Append(cmds, [op |-> "push", arg |-> PushList[pi]])
          /\ pushOk' = Append(pushOk, exit_zero)
          /\ pi' = AfterPush(pi, exit_zero)
    /\ UNCHANGED <<manifest, origin, pc, config, cleaned, listing, fate, said, ci, mode, ti,
                   label, result, hconfig, vcs, cwd, cwd0, raised, trace>>

\* line 138: the list is exhausted; back to the target loop
PushDone ==
    /\ pc = "push"
    /\ pi > Len(PushList)
    /\ pc' = AfterTarget
    /\ ti' = AfterTargetIndex
    /\ UNCHANGED <<manifest, origin, config, cleaned, listing, fate, said, ci, mode,
                   label, result, hconfig, vcs, cmds, cwd, cwd0, pi, pushOk, raised, trace>>

----------------------------------------------------------------------------
Next ==
    \/ CreateFlags
    \/ InteractiveCreate
    \/ BuildStart
    \/ CleanExists
    \/ CleanListdir
    \/ CleanEntry
    \/ CleanDone
    \/ SelectMode
    \/ SkipNull
    \/ PickTarget
    \/ LoopEnd
    \/ ExecuteBuild
    \/ AfterBuild
    \/ GitCommitLoad
    \/ GitCommitChdir
    \/ GitAdd
    \/ GitCommitRun
    \/ Push
    \/ PushDone

Spec == Init /\ [][Next]_vars

----------------------------------------------------------------------------
(* What a run has done *)

IsBuild(e) == e.op = "build"
IsHook(e) == e.op = "git_commit"
IsPush(c) == c.op = "push"
HasCommand(pair) == pair[2] # <<>>

Builds == SelectSeq(trace, IsBuild)
Hooks == SelectSeq(trace, IsHook)
Pushed == SelectSeq(cmds, IsPush)

\* <<platform, command>> of every build command run so far, in order
BuiltPairs == [k \in 1..Len(Builds) |-> <<Builds[k].label, Builds[k].arg>>]

\* <<platform, command>> of the pairs of a mapping whose command is not null
Targets(pbc) ==
    LET nn == SelectSeq(pbc, HasCommand)
    IN [k \in 1..Len(nn) |-> <<nn[k][1], nn[k][2][1]>>]

Loaded == config # <<>>
Ended == pc \in {"done", "aborted"}

----------------------------------------------------------------------------
(* C1: for a target whose build succeeded, no entry of vcs_push_command is  *)
(* executed when `git add` or `git commit` exited non-zero.                 *)
C1_NoPushAfterFailedCommit == vcs = "failed" => Pushed = <<>>

(* C2: when git_commit returns at its guard (auto_commit false, or the      *)
(* manifest not loadable at hook time), nothing is executed for the target  *)
(* after its build command: no git add, no git commit, no push.             *)
C2_GuardedHookRunsNothing == vcs = "skipped" => cmds = <<>>

(* C3: outside the span between os.chdir(BIRB_DIR) and the finally clause,  *)
(* the working directory is the one git_commit was entered with: on return  *)
(* and on raise alike.                                                      *)
C3_WorkingDirectoryRestored == pc \notin {"gc_add", "gc_commit"} => cwd = cwd0

(* C4: a multi-platform run that has ended has executed the command of      *)
(* every platform whose command is not null, once each, in the mapping's    *)
(* order, and nothing else.                                                 *)
C4_EveryTargetBuilt ==
    (Loaded /\ mode = "multi" /\ Ended) => BuiltPairs = Targets(Pbc)

(* C5: a failure of the commit step for one target (git add or git commit   *)
(* exiting non-zero, or the git binary missing) stays inside git_commit:    *)
(* the multi-platform run still executes the build command of every         *)
(* platform that has one.                                                   *)
C5_CommitFailureContained ==
    (Loaded /\ mode = "multi" /\ Ended /\ vcs \in {"failed", "unavailable"})
        => BuiltPairs = Targets(Pbc)

(* C9: with clean_before_build true the build commands are executed after   *)
(* the cleanup in every case: a run that has ended has executed at least    *)
(* its first build command, and no exception left the cleanup.              *)
C9_CleanupNeverAbortsBuild ==
    (Loaded /\ Val(config).clean_before_build /\ Ended)
        => (raised # "listdir" /\ Builds # <<>>)

----------------------------------------------------------------------------
(* C6: git_commit is called for a target if and only if its build command   *)
(* exited zero: every call directly follows a successful build command of   *)
(* the same platform and carries the manifest's current_version; every      *)
(* successful build command is directly followed by exactly that call,      *)
(* before any other build command; a failed build command is followed by    *)
(* no call, no commit and no push.                                          *)
C6_HookIffBuildSucceeded ==
    /\ \A k \in 1..Len(trace) :
          /\ IsHook(trace[k]) =>
                /\ k > 1
                /\ IsBuild(trace[k - 1])
                /\ trace[k - 1].ok
                /\ trace[k - 1].label = trace[k].label
                /\ trace[k].arg = Val(config).current_version
          /\ (IsBuild(trace[k]) /\ trace[k].ok) =>
                IF k = Len(trace) THEN pc = "built" ELSE IsHook(trace[k + 1])
          /\ (IsBuild(trace[k]) /\ ~trace[k].ok) =>
                (k < Len(trace) => IsBuild(trace[k + 1]))
    /\ result = "None" => (vcs = "none" /\ cmds = <<>>)
    /\ pc \in {"gc_load", "gc_chdir", "gc_add", "gc_commit", "push"} =>
          (result = "ok" /\ IsHook(trace[Len(trace)]) /\ trace[Len(trace)].label = label)

C6_Witness ==
    /\ pc = "done"
    /\ Len(trace) = 3
    /\ IsBuild(trace[1]) /\ ~trace[1].ok
    /\ IsBuild(trace[2]) /\ trace[2].ok
    /\ IsHook(trace[3]) /\ trace[3].label = "macos" /\ trace[3].arg = Version

(* C7: once the branch of line 172 is taken, the run is in multi-platform   *)
(* mode exactly when some entry of platform_build_commands is not null,     *)
(* and every build command is run by that branch alone; in the custom       *)
(* branch custom_build_command (the empty string included) is executed      *)
(* exactly once under the label "custom", and git_commit is called, with    *)
(* the label "custom", exactly when it exited zero.                         *)
C7_ModeSelection ==
    mode # "none" =>
        /\ mode = "multi" <=> (\E k \in 1..Len(Pbc) : Pbc[k][2] # <<>>)
        /\ \A k \in 1..Len(Builds) : Builds[k].branch = mode
        /\ mode = "custom" =>
              /\ Len(Builds) = (IF pc = "exec" THEN 0 ELSE 1)
              /\ \A k \in 1..Len(Builds) :
                    /\ Builds[k].arg = Val(config).custom_build_command
                    /\ Builds[k].label = "custom"
              /\ \A k \in 1..Len(Hooks) : Hooks[k].label = "custom"
              /\ Ended => Len(Hooks) = (IF Builds[1].ok THEN 1 ELSE 0)

C7_Witness ==
    /\ pc = "done"
    /\ mode = "custom"
    /\ Val(config).custom_build_command = ""
    /\ Len(Pbc) = 3
    /\ Len(Builds) = 1 /\ Builds[1].arg = "" /\ Builds[1].ok
    /\ Len(Hooks) = 1 /\ Hooks[1].label = "custom"

(* C8: the push commands run for a target are always the first entries of   *)
(* vcs_push_command, in list order, one attempt each; when the push loop    *)
(* has returned every entry has been attempted, whatever the exit status    *)
(* of the earlier ones; and a run in which a push failed still visits       *)
(* every remaining pair of the mapping before build_project returns.        *)
C8_EveryPushAttempted ==
    Loaded =>
        /\ Len(Pushed) = Len(pushOk)
        /\ Len(Pushed) <= Len(PushList)
        /\ \A k \in 1..Len(Pushed) : Pushed[k].arg = PushList[k]
        /\ pc = "push" => pi = Len(pushOk) + 1
        /\ (pc \in {"loop", "done"} /\ result = "ok") => Len(Pushed) = Len(PushList)
        /\ (\E k \in 1..Len(pushOk) : ~pushOk[k]) => raised = "none"
        /\ (pc = "done" /\ mode = "multi") => ti = Len(Pbc) + 1

C8_Witness ==
    /\ pc = "loop"
    /\ pushOk = <<FALSE, TRUE>>
    /\ Len(Pushed) = 2 /\ Pushed[1].arg = "push1" /\ Pushed[2].arg = "push2"
    /\ ti <= Len(Pbc) /\ HasCommand(Pbc[ti])

(* C10: a manifest written by interactive_create has a non-null "custom"    *)
(* entry as the last pair of platform_build_commands, equal to              *)
(* custom_build_command; a build of it never takes the custom branch, and   *)
(* runs the custom command in the multi-platform loop, under the label      *)
(* "custom", after the commands of all named platforms that have one; a     *)
(* build that returns has run it.                                           *)
C10_CustomIsAlwaysATarget ==
    origin = "interactive" =>
        /\ manifest # <<>>
        /\ Len(Val(manifest).platform_build_commands) = 4
        /\ LET m == Val(manifest)
               pbc == m.platform_build_commands
           IN /\ pbc[4][1] = "custom"
              /\ pbc[4][2] # <<>>
              /\ pbc[4][2] = <<m.custom_build_command>>
              /\ \A k \in 1..3 : pbc[k][1] = Platforms[k]
              /\ mode # "custom"
              /\ \A k \in 1..Len(Builds) :
                    /\ Builds[k].branch = "multi"
                    /\ Builds[k].label = "custom" =>
                          /\ Builds[k].arg = m.custom_build_command
                          /\ BuiltPairs = Targets(pbc)
              /\ pc = "done" => BuiltPairs = Targets(pbc)

C10_Witness ==
    /\ origin = "interactive"
    /\ pc = "done"
    /\ \A k \in 1..3 : Val(manifest).platform_build_commands[k][2] = <<>>
    /\ Val(manifest).custom_build_command = "null"
    /\ mode = "multi"
    /\ BuiltPairs = << <<"custom", "null">> >>

====
